---- MODULE Spec2Model ----
(***************************************************************************)
(* The OAuth state / session-binding protocol of the Reflect MCP server:  *)
(* the three routes of reflect-handler (GET /authorize, POST /authorize,  *)
(* GET /oauth/callback), the browser's cookie jar, and the key-value      *)
(* store OAUTH_KV.  The helpers of ./workers-oauth-utils are not part of  *)
(* the available sources; they are modelled from their documented         *)
(* contracts (sections 4.1 - 4.6 of the specification).                   *)
(***************************************************************************)
EXTENDS Integers, Sequences, FiniteSets, TLC

\* ------------------------------------------------------------------ bounds
\* Number of state tokens createOAuthState may mint in one behaviour.
MaxTokens == 2
\* Number of GET /oauth/callback requests that may be in flight at once.
NumCallbacks == 2

Tokens == 1..MaxTokens
Procs == 1..NumCallbacks

\* ------------------------------------------------------------- value spaces
\* `null' for a state token (no `state' query parameter, no bound token).
NoToken == 0
\* OAuth client identifiers; NoClient is a missing clientId.
Clients == {"abc", "xyz"}
NoClient == ""
\* CSRF tokens are strings; the empty string is the absent (falsy) token.
NoCsrf == << >>
CsrfTokens == {<<"a", "a">>, <<"a", "b">>}
\* COOKIE_ENCRYPTION_KEY, and some other key a forged cookie is sealed under.
ServerKey == "k1"
OtherKey == "k2"
\* Internal detail: the message of an unexpected exception (error.message), and
\* the status and text the upstream token endpoint answers a refused exchange with.
ErrorMessage == "KV PUT failed: 503"
ResponseStatus == "401"
ErrorText == "invalid_client secret"

\* --------------------------------------------------------- 4.1 Cookie Cipher
\* An optional value is a set: {} (absent) or a singleton.
Seal(plaintext, key) == [payload |-> plaintext, key |-> key, intact |-> TRUE]

Tamper(sealed) == [sealed EXCEPT !.intact = FALSE]

Rekey(sealed) == [sealed EXCEPT !.key = OtherKey]

\* Mutant: the payload is decoded without verifying signature and key.
OpenUnverified(cookie, key) == {c.payload : c \in cookie}

\* Mutant: the signature is verified, the key it was sealed under is not.
OpenAnyKey(cookie, key) == {c.payload : c \in {x \in cookie : x.intact}}

\* open: the plaintext, or nothing (IntegrityError) when the signature does not
\* verify or the value was sealed under another key; a missing cookie opens to
\* nothing as well.
Open(cookie, key) == {c.payload : c \in {x \in cookie : x.key = key /\ x.intact}}

\* ------------------------------------------------------------ HTTP responses
\* A Location header: where the redirect goes, the state token it carries, and
\* the client the grant was minted for.
Location(to, state, clientId) == [to |-> to, state |-> state, clientId |-> clientId]

NoLocation == Location("none", NoToken, NoClient)

Response(status, body, setCookie, location) ==
    [status |-> status, body |-> body, setCookie |-> setCookie, location |-> location]

NoResponse == Response(0, "", << >>, NoLocation)

\* c.text(body, status): a plain response without Set-Cookie.
Text(body, status) == Response(status, body, << >>, NoLocation)

\* OAuthError: every kind of section 7 is wrapped in this one error type, which
\* carries a description for the log and a 400-class status.
OAuthError(description) == [status |-> 400, description |-> description]

\* Mutant: the error's description is echoed in the body.
ToResponseDescribed(error) == Text(error.description, error.status)

\* toResponse(): the uniform HTTP translation; one failure page for every kind,
\* whose content does not depend on which check failed.
ToResponse(error) == Text("Authorization failed", error.status)

\* The browser stores, from every Set-Cookie header line, the cookie the line
\* starts with (a line that joins several cookies with ", " is parsed as its
\* first cookie followed by attributes).
RECURSIVE ApplySetCookie(_, _)
ApplySetCookie(cookies, lines) ==
    IF lines = << >> THEN cookies
    ELSE LET c == Head(Head(lines))
         IN ApplySetCookie([cookies EXCEPT ![c.name] = c.value], Tail(lines))

\* ------------------------------------------------------------ 4.2 CSRF Guard
generateCSRFProtection(token) ==
    [token |-> token, setCookie |-> [name |-> "csrf", value |-> token]]

\* TRUE: ok; FALSE: throws OAuthError (CSRFMismatch).
validateCSRFToken(formToken, cookies) ==
    /\ formToken # NoCsrf
    /\ cookies.csrf # NoCsrf
    /\ formToken = cookies.csrf

\* ------------------------------------------------- 4.3 Approved-Client Ledger
ApprovedClients(cookies, key) == UNION Open(cookies.ledger, key)

isClientApproved(cookies, clientId, key) == clientId \in ApprovedClients(cookies, key)

addApprovedClient(cookies, clientId, key) ==
    [name |-> "ledger", value |-> {Seal(ApprovedClients(cookies, key) \cup {clientId}, key)}]

\* ---------------------------------------------------------- 4.5 Session Binder
bindStateToSession(stateToken) ==
    [setCookie |-> [name |-> "session", value |-> {Seal(stateToken, ServerKey)}]]

ClearSessionCookie == [name |-> "session", value |-> {}]

readBoundToken(cookies) == Open(cookies.session, ServerKey)

\* ------------------------------------------------------------------- state
VARIABLES
    kv,                \* OAUTH_KV: state token -> the pending request ({} when absent)
    nextToken,         \* the next fresh state token createOAuthState mints
    jar,               \* the browser's cookies: csrf, ledger, session
    authz,             \* the /authorize request whose response the browser awaits
    cb,                \* the GET /oauth/callback requests in flight
    setCookieCombined, \* how the runtime iterates repeated Set-Cookie headers
    validations,       \* per token, the number of callbacks that validated it
    csrfUsed,          \* the jar's CSRF token has already passed a POST /authorize
    mcp                \* the MCP session of ReflectMCP: its props and the tool call in flight

vars == <<kv, nextToken, jar, authz, cb, setCookieCombined, validations, csrfUsed, mcp>>

\* The state of the OAuth routes.
oauthVars == <<kv, nextToken, jar, authz, cb, setCookieCombined, validations, csrfUsed>>

NoCookies == [csrf |-> NoCsrf, ledger |-> {}, session |-> {}]

\* What a request carries of a sealed cookie of the jar: the cookie as it is,
\* nothing (expired or never set), an altered value, or a value sealed under
\* another key.
Sendings == {"asis", "drop", "tamper", "rekey"}

Sent(cookie, how) ==
    CASE how = "asis" -> cookie
      [] how = "drop" -> {}
      [] how = "tamper" -> {Tamper(c) : c \in cookie}
      [] OTHER -> {Rekey(c) : c \in cookie}

\* The request carries a sealed cookie that was altered or sealed under another key.
Corrupt(cookie) == \E c \in cookie : ~c.intact \/ c.key # ServerKey

\* this.props of the session: no props, or the props completeAuthorization was
\* given; an option is a set, {} or a singleton.
NoProps == {}

PropsSet == {NoProps, {[accessToken |-> "", accessTokenId |-> "id0"]},
             {[accessToken |-> "tok1", accessTokenId |-> "id1"]},
             {[accessToken |-> "tok2", accessTokenId |-> "id2"]}}

NoResult == [raised |-> FALSE, error |-> {}, data |-> {}]

IdleTool(props) ==
    [props |-> props, pc |-> "idle", tool |-> "", request |-> {}, outcome |-> "",
     result |-> NoResult]

IdleCallback ==
    [pc |-> "idle", state |-> NoToken, cookie |-> {}, bound |-> NoToken, req |-> {},
     validated |-> FALSE, error |-> {}, corrupt |-> FALSE, resp |-> NoResponse]

NoAuthorize ==
    [route |-> "none", clientId |-> NoClient, approved |-> FALSE, corrupt |-> FALSE,
     formToken |-> NoCsrf, csrfCookie |-> NoCsrf, replay |-> FALSE, formValid |-> FALSE,
     carried |-> FALSE,
     stateToken |-> NoToken, appended |-> << >>, resp |-> NoResponse]

Init ==
    /\ kv = [t \in Tokens |-> {}]
    /\ nextToken = 1
    /\ jar = NoCookies
    /\ authz = NoAuthorize
    /\ cb = [p \in Procs |-> IdleCallback]
    /\ setCookieCombined \in BOOLEAN
    /\ validations = [t \in Tokens |-> 0]
    /\ csrfUsed = FALSE
    /\ mcp = IdleTool(NoProps)

\* ------------------------------------------------------------ GET /authorize
\* renderApprovalDialog: the consent page, carrying the CSRF cookie.
renderApprovalDialog(csrfToken, setCookie) ==
    Response(200, "approval dialog", << <<setCookie>> >>, NoLocation)

\* Mutant: an approved client is sent on without the dialog and its CSRF cookie.
GetAuthorizeResponseFastPath(clientId, approved, csrf) ==
    IF clientId = NoClient THEN Text("Invalid request", 400)
    ELSE IF approved THEN Response(302, "", << >>, Location("reflect", NoToken, NoClient))
    ELSE renderApprovalDialog(csrf.token, csrf.setCookie)

\* The response of GET /authorize for a parsed request with this clientId.  The
\* approval check has an empty body: its result changes nothing.
GetAuthorizeResponse(clientId, approved, csrf) ==
    IF clientId = NoClient THEN Text("Invalid request", 400)
    ELSE renderApprovalDialog(csrf.token, csrf.setCookie)

GetAuthorize(clientId, token, ledgerSent) ==
    /\ authz.route = "none"
    /\ LET cookies == [jar EXCEPT !.ledger = Sent(jar.ledger, ledgerSent)]
           approved == isClientApproved(cookies, clientId, ServerKey)
           csrf == generateCSRFProtection(token)
       IN authz' = [NoAuthorize EXCEPT !.route = "GET", !.clientId = clientId,
                       !.approved = approved, !.corrupt = Corrupt(cookies.ledger),
                       !.resp = GetAuthorizeResponse(clientId, approved, csrf)]
    /\ UNCHANGED <<kv, nextToken, jar, cb, setCookieCombined, mcp, validations, csrfUsed>>

\* ----------------------------------------------------------- POST /authorize
\* The submitted `state' form field: missing, not base64/JSON, or a decoded
\* object with (or without) oauthReqInfo.clientId.
FormStates ==
    {[kind |-> "missing", clientId |-> NoClient],
     [kind |-> "garbled", clientId |-> NoClient]}
    \cup {[kind |-> "decoded", clientId |-> c] : c \in Clients \cup {NoClient}}

CSRFMismatch == OAuthError("invalid CSRF token")

\* Mutant: validateCSRFToken is not called.
PostAuthorizeOutcomeNoCsrf(formToken, form, cookies) ==
    IF form.kind = "missing" THEN "missing_state"
    ELSE IF form.kind = "garbled" THEN "invalid_state"
    ELSE IF form.clientId = NoClient THEN "invalid_request"
    ELSE "redirect"

\* Mutant: a decoded state is accepted without looking at oauthReqInfo.clientId.
PostAuthorizeOutcomeNoClientCheck(formToken, form, cookies) ==
    IF ~validateCSRFToken(formToken, cookies) THEN "csrf"
    ELSE IF form.kind = "missing" THEN "missing_state"
    ELSE IF form.kind = "garbled" THEN "invalid_state"
    ELSE "redirect"

\* The form state decodes to an object that names a client.
FormValid(form) == form.kind = "decoded" /\ form.clientId # NoClient

\* Where POST /authorize ends before it touches the ledger and the store.
PostAuthorizeOutcome(formToken, form, cookies) ==
    IF ~validateCSRFToken(formToken, cookies) THEN "csrf"
    ELSE IF form.kind = "missing" THEN "missing_state"
    ELSE IF form.kind = "garbled" THEN "invalid_state"
    ELSE IF form.clientId = NoClient THEN "invalid_request"
    ELSE "redirect"

\* The early returns of the try block, and its catch: an OAuthError answers with
\* error.toResponse(), any other error with a 500 that quotes error.message.
PostAuthorizeError(outcome) ==
    CASE outcome = "csrf" -> ToResponse(CSRFMismatch)
      [] outcome = "missing_state" -> Text("Missing state in form data", 400)
      [] outcome = "invalid_state" -> Text("Invalid state data", 400)
      [] outcome = "invalid_request" -> Text("Invalid request", 400)
      [] OTHER -> Text("Internal server error: " \o ErrorMessage, 500)

\* headers.append("Set-Cookie", ...) twice: two header lines.
SetBothCookies(approvedClientCookie, sessionCookie) ==
    << <<approvedClientCookie>>, <<sessionCookie>> >>

RECURSIVE Join(_)
Join(lines) == IF lines = << >> THEN << >> ELSE Head(lines) \o Join(Tail(lines))

\* Object.fromEntries(headers): an object has one "set-cookie" key.  A runtime
\* that yields every Set-Cookie header as an entry of its own leaves the last
\* one; a runtime that combines them yields one line joining both.
FromEntries(lines) ==
    IF lines = << >> THEN << >>
    ELSE IF setCookieCombined THEN <<Join(lines)>>
    ELSE <<lines[Len(lines)]>>

\* Mutant: the upstream URL carries a state that is not this request's token.
redirectToReflectStaleState(stateToken, headers) ==
    Response(302, "", headers, Location("reflect", 1, NoClient))

redirectToReflect(stateToken, headers) ==
    Response(302, "", headers, Location("reflect", stateToken, NoClient))

\* createOAuthState: a fresh token, written to the store with the request.
createOAuthState(oauthReqInfo, store, fresh) ==
    [stateToken |-> fresh, store |-> [store EXCEPT ![fresh] = {oauthReqInfo}]]

\* Mutant: the decoded form state itself is stored, not its oauthReqInfo.
PendingRequestWholeState(form) == [clientId |-> NoClient]

\* state.oauthReqInfo, the pending request handed to createOAuthState.
PendingRequest(form) == [clientId |-> form.clientId]

PostAuthorize(formToken, form, csrfSent, ledgerSent) ==
    /\ authz.route = "none"
    /\ LET cookies == [jar EXCEPT !.csrf = IF csrfSent THEN jar.csrf ELSE NoCsrf,
                                  !.ledger = Sent(jar.ledger, ledgerSent)]
           outcome == PostAuthorizeOutcome(formToken, form, cookies)
           request == [NoAuthorize EXCEPT !.route = "POST", !.formToken = formToken,
                                          !.csrfCookie = cookies.csrf,
                                          !.replay = csrfSent /\ csrfUsed,
                                          \* the form state is read after the CSRF check
                                          !.formValid = outcome # "csrf" /\ FormValid(form)]
       IN IF outcome # "redirect"
          THEN /\ authz' = [request EXCEPT !.resp = PostAuthorizeError(outcome)]
               /\ csrfUsed' = (csrfUsed \/ (csrfSent /\ outcome # "csrf"))
               /\ UNCHANGED <<kv, nextToken>>
          ELSE \E storeFails \in BOOLEAN :
               IF storeFails
               \* the write to OAUTH_KV throws inside createOAuthState
               THEN /\ authz' = [request EXCEPT !.resp = PostAuthorizeError("error")]
                    /\ csrfUsed' = (csrfUsed \/ csrfSent)
                    /\ UNCHANGED <<kv, nextToken>>
               ELSE
               /\ nextToken <= MaxTokens
               /\ LET approvedClientCookie ==
                          addApprovedClient(cookies, form.clientId, ServerKey)
                      created == createOAuthState(PendingRequest(form), kv, nextToken)
                      sessionCookie == bindStateToSession(created.stateToken).setCookie
                      headers == SetBothCookies(approvedClientCookie, sessionCookie)
                  IN /\ kv' = created.store
                     /\ nextToken' = nextToken + 1
                     /\ csrfUsed' = (csrfUsed \/ csrfSent)
                     /\ authz' = [request EXCEPT
                            !.clientId = form.clientId,
                            !.approved = isClientApproved(cookies, form.clientId, ServerKey),
                            !.corrupt = Corrupt(cookies.ledger),
                            !.carried = (cookies.ledger = jar.ledger),
                            !.stateToken = created.stateToken, !.appended = headers,
                            !.resp = redirectToReflect(created.stateToken,
                                                       FromEntries(headers))]
    /\ UNCHANGED <<jar, cb, setCookieCombined, mcp, validations>>

\* The browser receives the response of its /authorize request and applies the
\* Set-Cookie header.
AuthorizeRespond ==
    /\ authz.route # "none"
    /\ jar' = ApplySetCookie(jar, authz.resp.setCookie)
    /\ csrfUsed' = (csrfUsed /\ authz.resp.status # 200)
    /\ authz' = NoAuthorize
    /\ UNCHANGED <<kv, nextToken, cb, setCookieCombined, mcp, validations>>

\* ------------------------------------------------------- GET /oauth/callback
\* 4.6 step 1 and the state parameter: the session-binding cookie must open
\* (the browser-side proof) and hold the token the callback's query carries.
NoBinding == OAuthError("missing or invalid session binding")

StateMismatch == OAuthError("state does not match session")

UnknownOrExpiredState == OAuthError("unknown or expired state")

\* Mutant: the cookie is opened, the state parameter is not compared with it.
ValidateBindingCookieOnly(state, cookie) ==
    LET bound == readBoundToken([NoCookies EXCEPT !.session = cookie])
    IN IF bound = {} THEN [ok |-> FALSE, error |-> NoBinding, bound |-> NoToken]
       ELSE [ok |-> TRUE, error |-> NoBinding, bound |-> CHOOSE t \in bound : TRUE]

\* Mutant: without a binding that opens, the state parameter is looked up instead.
ValidateBindingStateFallback(state, cookie) ==
    LET bound == readBoundToken([NoCookies EXCEPT !.session = cookie])
    IN IF bound = {}
       THEN IF state = NoToken THEN [ok |-> FALSE, error |-> NoBinding, bound |-> NoToken]
            ELSE [ok |-> TRUE, error |-> NoBinding, bound |-> state]
       ELSE LET boundStateToken == CHOOSE t \in bound : TRUE
            IN IF state # boundStateToken
               THEN [ok |-> FALSE, error |-> StateMismatch, bound |-> boundStateToken]
               ELSE [ok |-> TRUE, error |-> NoBinding, bound |-> boundStateToken]

ValidateBinding(state, cookie) ==
    LET bound == readBoundToken([NoCookies EXCEPT !.session = cookie])
    IN IF bound = {} THEN [ok |-> FALSE, error |-> NoBinding, bound |-> NoToken]
       ELSE LET boundStateToken == CHOOSE t \in bound : TRUE
            IN IF state # boundStateToken
               THEN [ok |-> FALSE, error |-> StateMismatch, bound |-> boundStateToken]
               ELSE [ok |-> TRUE, error |-> NoBinding, bound |-> boundStateToken]

\* The request is answered: its locals are gone, the response is on its way.
\* What is kept is whether validateOAuthState returned.
Answer(c, resp) ==
    [IdleCallback EXCEPT !.pc = "done", !.validated = c.validated, !.resp = resp]

\* Mutant: the catch block does not return, and the handler goes on.
OnValidationErrorContinue(c, error) == [c EXCEPT !.pc = "exchange"]

\* catch (error): an OAuthError ends the request with error.toResponse(); the
\* error itself, the state parameter it is about and whether the binding cookie
\* was a corrupt one is what the log sees of it.
OnValidationError(c, error) ==
    [Answer(c, ToResponse(error)) EXCEPT !.state = c.state, !.error = {error},
                                         !.corrupt = c.corrupt]

RequestClientId(req) == IF req = {} THEN NoClient ELSE (CHOOSE r \in req : TRUE).clientId

\* After validateOAuthState returned: the clientId and code checks, then the
\* token exchange is sent.
AfterValidation(c, code) ==
    IF RequestClientId(c.req) = NoClient
    THEN Answer(c, Text("Invalid OAuth request data", 400))
    ELSE IF ~code
         THEN Answer(c, Text("Missing code", 400))
         ELSE [c EXCEPT !.pc = "exchange"]

\* The request arrives with the browser's cookies; validateOAuthState reads the
\* binding cookie and then looks the token up in the store.
CallbackReceive(p, state, sessionSent) ==
    /\ authz.route = "none"
    /\ cb[p].pc = "idle"
    /\ LET cookie == Sent(jar.session, sessionSent)
           binding == ValidateBinding(state, cookie)
           \* the state parameter is read once the binding cookie has opened
           c == [cb[p] EXCEPT !.cookie = cookie, !.corrupt = Corrupt(cookie),
                              !.state = IF binding.bound = NoToken THEN NoToken ELSE state]
       IN cb' = [cb EXCEPT ![p] =
                    IF binding.ok THEN [c EXCEPT !.pc = "kvget", !.bound = binding.bound]
                    ELSE OnValidationError(c, binding.error)]
    /\ UNCHANGED <<kv, nextToken, jar, authz, setCookieCombined, mcp, validations, csrfUsed>>

\* catch (error), any other error: the store could not be reached.
OnUnexpectedError(c) == Answer(c, Text("Internal server error", 500))

\* 4.4 consume, first half: the lookup in OAUTH_KV.
CallbackKvGet(p, storeFails) ==
    /\ authz.route = "none"
    /\ cb[p].pc = "kvget"
    /\ LET c == cb[p]
           entry == kv[c.bound]
       IN cb' = [cb EXCEPT ![p] =
                    IF storeFails THEN OnUnexpectedError(c)
                    ELSE IF entry = {} THEN OnValidationError(c, UnknownOrExpiredState)
                    ELSE [c EXCEPT !.pc = "kvdelete", !.req = entry]]
    /\ UNCHANGED <<kv, nextToken, jar, authz, setCookieCombined, mcp, validations, csrfUsed>>

\* Mutant: validateOAuthState returns the request and leaves the entry in the store.
CallbackKvDeleteKeepsEntry(p, code) ==
    /\ authz.route = "none"
    /\ cb[p].pc = "kvdelete"
    /\ LET c == cb[p]
       IN /\ validations' = [validations EXCEPT ![c.bound] = @ + 1]
          /\ cb' = [cb EXCEPT ![p] = AfterValidation([c EXCEPT !.validated = TRUE], code)]
    /\ UNCHANGED <<kv, nextToken, jar, authz, setCookieCombined, mcp, csrfUsed>>

\* 4.4 consume, second half: the delete; validateOAuthState returns the request
\* and the clear-cookie header, and the handler goes on with the `code' of the
\* query.
CallbackKvDelete(p, code) ==
    /\ authz.route = "none"
    /\ cb[p].pc = "kvdelete"
    /\ LET c == cb[p]
       IN /\ kv' = [kv EXCEPT ![c.bound] = {}]
          /\ validations' = [validations EXCEPT ![c.bound] = @ + 1]
          /\ cb' = [cb EXCEPT ![p] = AfterValidation([c EXCEPT !.validated = TRUE], code)]
    /\ UNCHANGED <<nextToken, jar, authz, setCookieCombined, mcp, csrfUsed>>

\* The 302 that ends a completed authorization: Location, and the clear-cookie
\* header when validateOAuthState returned one.
CompletedResponse(redirectTo, clearSessionCookie) ==
    Response(302, "", clearSessionCookie, redirectTo)

\* OAUTH_PROVIDER.completeAuthorization({request: oauthReqInfo, props, ...}): the
\* grant is minted for the recovered request, and the client is redirected.
completeAuthorization(c) ==
    CompletedResponse(Location("client", c.state, RequestClientId(c.req)),
                      IF c.validated THEN << <<ClearSessionCookie>> >> ELSE << >>)

\* The token endpoint answered: not ok, ok without access_token, or ok with
\* one, in which case completeAuthorization is invoked with the props.
CallbackExchange(p, ok, accessToken) ==
    /\ authz.route = "none"
    /\ cb[p].pc = "exchange"
    /\ LET c == cb[p]
       IN IF ~ok
          THEN cb' = [cb EXCEPT ![p] =
                   Answer(c, Text("Failed to fetch access token: " \o ResponseStatus
                                      \o " " \o ErrorText, 500))]
          ELSE IF ~accessToken
               THEN cb' = [cb EXCEPT ![p] = Answer(c, Text("Missing access token", 400))]
               ELSE cb' = [cb EXCEPT ![p] = Answer(c, completeAuthorization(c))]
    /\ UNCHANGED <<kv, nextToken, jar, authz, setCookieCombined, mcp, validations, csrfUsed>>

\* The browser receives the callback's response and applies its Set-Cookie.
CallbackRespond(p) ==
    /\ authz.route = "none"
    /\ cb[p].pc = "done"
    /\ jar' = ApplySetCookie(jar, cb[p].resp.setCookie)
    /\ cb' = [cb EXCEPT ![p] = IdleCallback]
    /\ UNCHANGED <<kv, nextToken, authz, setCookieCombined, mcp, validations, csrfUsed>>

\* -------------------------------------------------------------- environment
\* The store's TTL removes an entry.
KvExpire(t) ==
    /\ authz.route = "none"
    /\ kv[t] # {}
    /\ kv' = [kv EXCEPT ![t] = {}]
    /\ UNCHANGED <<nextToken, jar, authz, cb, setCookieCombined, mcp, validations, csrfUsed>>

\* ------------------------------------------------------------- the MCP tools
\* The clock of the run: now.toISOString().split('T')[0].
Today == "2026-01-15"

Digits == {"0", "1", "2", "3", "4", "5", "6", "7", "8", "9"}

DigitValue(ch) == CHOOSE n \in 0..9 : SubSeq("0123456789", n + 1, n + 1) = ch

\* /^\d{4}-\d{2}-\d{2}$/.test(dateInput)
MatchesDateRegex(dateInput) ==
    /\ Len(dateInput) = 10
    /\ \A i \in {1, 2, 3, 4, 6, 7, 9, 10} : SubSeq(dateInput, i, i) \in Digits
    /\ SubSeq(dateInput, 5, 5) = "-"
    /\ SubSeq(dateInput, 8, 8) = "-"

TwoDigits(str, i) == 10 * DigitValue(SubSeq(str, i, i)) + DigitValue(SubSeq(str, i + 1, i + 1))

\* !isNaN(new Date(dateInput).getTime()) for a string of the form YYYY-MM-DD: the
\* month is 01..12 and the day 01..28 (days 29..31 depend on month and engine
\* and are not among the inputs).
DateParses(dateInput) ==
    /\ TwoDigits(dateInput, 6) \in 1..12
    /\ TwoDigits(dateInput, 9) \in 1..28

getValidDate(dateInput) ==
    IF dateInput # {} /\ dateInput # {""}
    THEN LET d == CHOOSE x \in dateInput : TRUE
         IN IF MatchesDateRegex(d) /\ DateParses(d) THEN d ELSE Today
    ELSE Today

RECURSIVE JoinLines(_)
JoinLines(parts) ==
    IF parts = << >> THEN ""
    ELSE IF Len(parts) = 1 THEN Head(parts)
    ELSE Head(parts) \o "\n" \o JoinLines(Tail(parts))

FormatTasks(tasks) == JoinLines([i \in 1..Len(tasks) |-> "+ " \o tasks[i]])

\* parts.join('\n'): the content when it is truthy, then the formatted tasks when
\* there are any.
TextToAppend(content, tasks) ==
    LET text == IF content = {} \/ content = {""} THEN << >>
                ELSE <<CHOOSE x \in content : TRUE>>
        list == IF tasks = {} \/ tasks = {<< >>} THEN << >>
                ELSE <<FormatTasks(CHOOSE x \in tasks : TRUE)>>
    IN JoinLines(text \o list)

\* this.props?.accessToken
AccessToken(props) == IF props = {} THEN "" ELSE (CHOOSE x \in props : TRUE).accessToken

Returned(error, data) == [raised |-> FALSE, error |-> error, data |-> data]

NotAuthenticated == Returned({"Not authenticated. Please complete OAuth flow first."}, {})

NothingToAppend == Returned({"Either content or tasks must be provided."}, {})

\* The arguments of a tool call: get_reflect_graphs takes none; the two
\* versions of append_to_reflect_daily_notes take content (required in the
\* first version), tasks (second version only), graph_id and date.
Contents == {{}, {""}, {"note"}}

TaskLists == {{}, {<< >>}, {<<"buy milk">>}, {<<"buy milk", "call mom">>}}

Dates == {{}, {"2025-11-30"}, {"2025-13-45"}, {"30/11/2025"}}

ToolNames == {"get_reflect_graphs", "append_v1", "append_v2"}

ToolArgs(tool) ==
    IF tool = "get_reflect_graphs" THEN {[content |-> {}, tasks |-> {}, date |-> {}]}
    ELSE IF tool = "append_v1"
    THEN {[content |-> c, tasks |-> {}, date |-> d] : c \in Contents \ {{}}, d \in Dates}
    ELSE {[content |-> c, tasks |-> t, date |-> d] :
              c \in Contents, t \in TaskLists, d \in Dates}

\* The request a tool hands to fetch.
ToolRequest(tool, args, accessToken) ==
    IF tool = "get_reflect_graphs"
    THEN [method |-> "GET", url |-> "https://reflect.app/api/graphs",
          authorization |-> "Bearer " \o accessToken, date |-> "", text |-> ""]
    ELSE [method |-> "PUT", url |-> "https://reflect.app/api/graphs/g1/daily-notes",
          authorization |-> "Bearer " \o accessToken,
          date |-> getValidDate(args.date),
          text |-> IF tool = "append_v1" THEN CHOOSE x \in args.content : TRUE
                   ELSE TextToAppend(args.content, args.tasks)]

\* Mutant: the access token is not looked at.
ToolStartUnchecked(tool, args, props) ==
    IF tool = "append_v2" /\ TextToAppend(args.content, args.tasks) = ""
    THEN [step |-> "return", result |-> NothingToAppend]
    ELSE [step |-> "fetch", result |-> NoResult]

\* What the tool does before its try block: "return" with a result, or "fetch".
ToolStart(tool, args, props) ==
    IF AccessToken(props) = "" THEN [step |-> "return", result |-> NotAuthenticated]
    ELSE IF tool = "append_v2" /\ TextToAppend(args.content, args.tasks) = ""
    THEN [step |-> "return", result |-> NothingToAppend]
    ELSE [step |-> "fetch", result |-> NoResult]

\* How the outbound call ends: fetch rejects, the response is not ok, its body
\* is not JSON, or it is ok with data.
FetchOutcomes == {"throws", "notok", "badjson", "ok"}

\* The try block after fetch and its catch: every error becomes a result.
ToolFinish(outcome) ==
    CASE outcome = "throws" -> Returned({"TypeError: fetch failed"}, {})
      [] outcome = "notok" -> Returned({"Error: " \o "HTTP error! status: " \o "500"}, {})
      [] outcome = "badjson" -> Returned({"SyntaxError: Unexpected token"}, {})
      [] OTHER -> Returned({}, {"data"})

ToolConnect(props) ==
    /\ mcp.pc = "idle"
    /\ mcp' = IdleTool(props)
    /\ UNCHANGED oauthVars

ToolCall(tool, args) ==
    /\ mcp.pc = "idle"
    /\ LET start == ToolStart(tool, args, mcp.props)
           call == [mcp EXCEPT !.tool = tool, !.outcome = "", !.request = {}]
       IN mcp' = IF start.step = "return"
                 THEN [call EXCEPT !.pc = "done", !.result = start.result]
                 ELSE [call EXCEPT !.pc = "fetch", !.result = NoResult,
                           !.request = {ToolRequest(tool, args, AccessToken(mcp.props))}]
    /\ UNCHANGED oauthVars

ToolFetched(outcome) ==
    /\ mcp.pc = "fetch"
    /\ mcp' = [mcp EXCEPT !.pc = "done", !.outcome = outcome, !.result = ToolFinish(outcome)]
    /\ UNCHANGED oauthVars

ToolReturn ==
    /\ mcp.pc = "done"
    /\ mcp' = IdleTool(mcp.props)
    /\ UNCHANGED oauthVars

ToolNext ==
    \/ \E props \in PropsSet : ToolConnect(props)
    \/ \E tool \in ToolNames : \E args \in ToolArgs(tool) : ToolCall(tool, args)
    \/ \E outcome \in FetchOutcomes : ToolFetched(outcome)
    \/ ToolReturn

Next ==
    \/ \E clientId \in Clients \cup {NoClient}, token \in CsrfTokens, ledgerSent \in Sendings :
           GetAuthorize(clientId, token, ledgerSent)
    \/ \E formToken \in CsrfTokens \cup {NoCsrf}, form \in FormStates,
          csrfSent \in BOOLEAN, ledgerSent \in Sendings :
           PostAuthorize(formToken, form, csrfSent, ledgerSent)
    \/ AuthorizeRespond
    \/ \E p \in Procs, state \in Tokens \cup {NoToken}, sessionSent \in Sendings :
           CallbackReceive(p, state, sessionSent)
    \/ \E p \in Procs, storeFails \in BOOLEAN : CallbackKvGet(p, storeFails)
    \/ \E p \in Procs, code \in BOOLEAN : CallbackKvDelete(p, code)
    \/ \E p \in Procs, ok \in BOOLEAN, accessToken \in BOOLEAN :
           CallbackExchange(p, ok, accessToken)
    \/ \E p \in Procs : CallbackRespond(p)
    \/ \E t \in Tokens : KvExpire(t)

Spec == Init /\ [][Next]_vars

\* What the scheduling guarantees: the store answers every lookup and delete,
\* and every response that was returned reaches the browser.  Nothing makes
\* the upstream token endpoint answer, and the handler sets no timeout on its
\* fetch: CallbackExchange is under no fairness.
Fairness ==
    /\ WF_vars(AuthorizeRespond)
    /\ \A p \in Procs :
           /\ WF_vars(\E storeFails \in BOOLEAN : CallbackKvGet(p, storeFails))
           /\ WF_vars(\E code \in BOOLEAN : CallbackKvDelete(p, code))
           /\ WF_vars(CallbackRespond(p))

LiveSpec == Spec /\ Fairness

\* The MCP session on its own: the OAuth routes stand still.
ToolSpec == Init /\ [][ToolNext]_vars

TypeOK ==
    /\ nextToken \in 1..(MaxTokens + 1)
    /\ \A t \in Tokens : Cardinality(kv[t]) <= 1
    /\ \A p \in Procs : cb[p].pc \in {"idle", "kvget", "kvdelete", "exchange", "done"}

\* ------------------------------------------------------------------ claims
\* An /authorize response reaches the browser in this step.
Applied == authz.route # "none" /\ authz'.route = "none"

Redirected == authz.route = "POST" /\ authz.resp.status = 302

\* A callback's lookup of its bound token completes in this step.
LookedUp(p) == cb[p].pc = "kvget" /\ cb'[p].pc # "kvget"

\* C1: create(R) writes R under the token it returns, so a consume that follows
\* at once returns R unchanged; a lookup returns what the store holds; and once
\* a consume of T has completed, T stays out of the store and every later lookup
\* of T ends the callback with UnknownOrExpiredState.
C1_CreateConsumeOnce ==
    /\ [](Redirected => kv[authz.stateToken] = {[clientId |-> authz.clientId]})
    /\ [](\A t \in Tokens : validations[t] > 0 => kv[t] = {})
    /\ [][\A p \in Procs :
            (LookedUp(p) /\ cb'[p].resp.status # 500) =>
                IF validations[cb[p].bound] > 0 \/ kv[cb[p].bound] = {}
                THEN /\ cb'[p].error = {UnknownOrExpiredState}
                     /\ cb'[p].resp = ToResponse(UnknownOrExpiredState)
                ELSE cb'[p].req = kv[cb[p].bound]]_vars

\* A token was consumed, and a later callback for it was turned away.
C1_Witness ==
    \E p \in Procs :
        /\ cb[p].pc = "done"
        /\ cb[p].state \in Tokens
        /\ validations[cb[p].state] = 1
        /\ cb[p].error = {UnknownOrExpiredState}

InFlight(p) == cb[p].pc \in {"kvget", "kvdelete", "exchange"}

Completed(p) == cb[p].pc = "done" /\ cb[p].resp.location.to = "client"

\* C2: a callback whose state parameter is A while the session-binding cookie it
\* carries holds another token (or none) never passes the binding check: it
\* never reaches the store lookup, the token exchange or completeAuthorization.
C2_MismatchNeverPasses ==
    \A p \in Procs :
        InFlight(p) =>
            /\ Open(cb[p].cookie, ServerKey) = {cb[p].state}
            /\ cb[p].bound = cb[p].state

\* The cookie holds B, the callback carried A, both live in the store, and the
\* callback was turned away.
C2_Witness ==
    \E p \in Procs, b \in Tokens :
        /\ cb[p].pc = "done"
        /\ cb[p].error = {StateMismatch}
        /\ cb[p].state \in Tokens \ {b}
        /\ jar.session = {Seal(b, ServerKey)}
        /\ kv[cb[p].state] # {}
        /\ kv[b] # {}

\* C3: of the callbacks that present one state token, at most one validates it
\* successfully.
C3_AtMostOneConsumer == \A t \in Tokens : validations[t] <= 1

ClearsSessionCookie(resp) ==
    \E i \in 1..Len(resp.setCookie) : Head(resp.setCookie[i]) = ClearSessionCookie

\* C4: every response of GET /oauth/callback carries the Set-Cookie header that
\* clears the session-binding cookie.
C4_EveryResponseClearsCookie ==
    \A p \in Procs : cb[p].pc = "done" => ClearsSessionCookie(cb[p].resp)

\* C5: the token exchange is sent, and completeAuthorization is invoked, only in
\* a callback whose validateOAuthState has returned successfully.
C5_MintOnlyAfterValidation ==
    \A p \in Procs : (cb[p].pc = "exchange" \/ Completed(p)) => cb[p].validated

\* A validated callback completed the authorization.
C5_Witness == \E p \in Procs : Completed(p) /\ cb[p].validated /\ cb[p].resp.status = 302

\* The CSRF check of the POST /authorize being answered let the request through.
CsrfPassed == authz.route = "POST" /\ authz.resp # ToResponse(CSRFMismatch)

CsrfExactMatch ==
    /\ authz.csrfCookie # NoCsrf
    /\ authz.formToken # NoCsrf
    /\ Len(authz.formToken) = Len(authz.csrfCookie)
    /\ \A i \in 1..Len(authz.formToken) : authz.formToken[i] = authz.csrfCookie[i]

\* C6: POST /authorize passes CSRF validation exactly when the CSRF cookie is
\* present and the submitted token equals it character for character; a missing
\* cookie, a missing token and any differing character all fail.
C6_CsrfFailsClosed == authz.route = "POST" => (CsrfPassed <=> CsrfExactMatch)

\* A submission with the matching token and cookie went through to the redirect.
C6_Witness == Redirected /\ CsrfExactMatch

\* C7: a CSRF token that has passed a POST /authorize is not accepted again.
C7_CsrfSingleUse == ~(CsrfPassed /\ authz.replay)

HasCookie(resp, cookie) ==
    \E i \in 1..Len(resp.setCookie) :
        \E j \in 1..Len(resp.setCookie[i]) :
            /\ resp.setCookie[i][j].name = cookie.name
            /\ resp.setCookie[i][j].value = cookie.value

\* C8: approved or not, GET /authorize for a client answers with the dialog and
\* a freshly issued CSRF cookie, and every redirect of POST /authorize has passed
\* the CSRF check, written its state token to the store, and carries that token
\* upstream and in the session-binding cookie it issues.
C8_ApprovalSkipsNothing ==
    /\ (authz.route = "GET" /\ authz.clientId # NoClient) =>
            /\ authz.resp.status = 200
            /\ \E token \in CsrfTokens :
                   HasCookie(authz.resp, generateCSRFProtection(token).setCookie)
    /\ Redirected =>
            /\ CsrfExactMatch
            /\ authz.stateToken \in Tokens
            /\ kv[authz.stateToken] # {}
            /\ authz.resp.location = Location("reflect", authz.stateToken, NoClient)
            /\ HasCookie(authz.resp, bindStateToSession(authz.stateToken).setCookie)

\* An already approved client went through the whole POST /authorize.
C8_Witness == Redirected /\ authz.approved

\* C9: when the browser applies the response of a consent whose request carried
\* its ledger cookie, the client consented to is approved afterwards and so is
\* every client that was approved before (after "abc" then "xyz": both); and the
\* ledger cookie changes in no other step.
C9_LedgerKeepsBoth ==
    /\ [][(Redirected /\ Applied /\ authz.carried) =>
              \A c \in ApprovedClients(jar, ServerKey) \cup {authz.clientId} :
                  isClientApproved(jar', c, ServerKey)]_vars
    /\ [][jar'.ledger # jar.ledger => (Redirected /\ Applied)]_vars

\* C10: a ledger cookie that does not open under the server's key approves no
\* client and fails no request: GET /authorize still shows the dialog, and POST
\* /authorize redirects with a ledger that holds the consented client alone.
C10_CorruptLedgerIsEmpty ==
    authz.corrupt =>
        /\ ~authz.approved
        /\ authz.route = "GET" => (authz.clientId # NoClient => authz.resp.status = 200)
        /\ authz.route = "POST" =>
               /\ authz.resp.status = 302
               /\ authz.appended[1] =
                      <<[name |-> "ledger",
                         value |-> {Seal({authz.clientId}, ServerKey)}]>>

\* The corrupt cookie's payload names the very client that asks for approval.
C10_Witness ==
    /\ Redirected
    /\ authz.corrupt
    /\ \E c \in jar.ledger : authz.clientId \in c.payload

Contains(s, d) == \E i \in 1..(Len(s) - Len(d) + 1) : SubSeq(s, i, i + Len(d) - 1) = d

Opaque(resp) ==
    resp.status >= 500 =>
        /\ ~Contains(resp.body, ErrorMessage)
        /\ ~Contains(resp.body, ErrorText)

\* C12: a 500-class response of POST /authorize or GET /oauth/callback quotes
\* neither the message of the exception nor the text of the upstream response.
C12_OpaqueInternalError ==
    /\ authz.route = "POST" => Opaque(authz.resp)
    /\ \A p \in Procs : cb[p].pc = "done" => Opaque(cb[p].resp)

\* C13: a session-binding or ledger cookie that was altered or sealed under
\* another key never opens to a value; the request ends as it does without the
\* cookie: the callback with NoBinding before the store is looked up, the
\* authorize routes with an empty ledger.
C13_ForgedCookieIsMissingCookie ==
    /\ \A p \in Procs :
           cb[p].corrupt =>
               /\ cb[p].pc = "done"
               /\ ~cb[p].validated
               /\ cb[p].error = {ValidateBinding(cb[p].state, {}).error}
               /\ cb[p].resp = ToResponse(ValidateBinding(cb[p].state, {}).error)
    /\ authz.corrupt =>
           /\ authz.approved = isClientApproved(NoCookies, authz.clientId, ServerKey)
           /\ Redirected =>
                  authz.appended[1] = <<addApprovedClient(NoCookies, authz.clientId, ServerKey)>>

\* The browser holds a live binding cookie, and a callback that carried it in
\* altered form was turned away.
C13_Witness ==
    \E p \in Procs :
        /\ cb[p].corrupt
        /\ cb[p].pc = "done"
        /\ jar.session # {}
        /\ \E t \in Tokens : kv[t] # {} /\ jar.session = {Seal(t, ServerKey)}

Received(p) == cb[p].pc = "idle" /\ cb'[p].pc # "idle"

C16_CallbackReturns ==
    \A p \in Procs : (cb[p].pc = "exchange") ~> (cb[p].pc = "done")

\* The values of the session-binding cookies among a response's Set-Cookie values.
SessionCookies(resp) ==
    {resp.setCookie[i][j].value :
        <<i, j>> \in {<<i, j>> \in (1..Len(resp.setCookie)) \X (1..2) :
                        /\ j <= Len(resp.setCookie[i])
                        /\ resp.setCookie[i][j].name = "session"}}

\* C17: in a 302 of POST /authorize, the state parameter of the upstream URL is
\* a token under which the store holds the submitted request, and it is the one
\* token sealed into the session-binding cookie of that response.
C17_OneTokenThreePlaces ==
    Redirected =>
        LET t == authz.resp.location.state
        IN /\ authz.resp.location.to = "reflect"
           /\ t \in Tokens
           /\ kv[t] = {[clientId |-> authz.clientId]}
           /\ SessionCookies(authz.resp) = {{Seal(t, ServerKey)}}

\* The second redirect of a behaviour, while the first token is still live.
C17_Witness == Redirected /\ authz.stateToken = 2 /\ kv[1] # {}

\* C18: the redirect of POST /authorize carries two Set-Cookie values, the
\* ledger cookie and the session-binding cookie the handler appended, each a
\* header line of its own.
C18_BothCookiesSet ==
    Redirected =>
        /\ Len(authz.resp.setCookie) = 2
        /\ Len(authz.resp.setCookie[1]) = 1
        /\ authz.resp.setCookie[1][1].name = "ledger"
        /\ authz.resp.setCookie[1] = authz.appended[1]
        /\ authz.resp.setCookie[2] = <<bindStateToSession(authz.stateToken).setCookie>>

\* A caller-side fault: the CSRF check fails, or the form state is missing,
\* undecodable or without a clientId.
CallerFault == authz.route = "POST" /\ (~CsrfExactMatch \/ ~authz.formValid)

C20_NoBindingLeavesStore ==
    /\ [](\A p \in Procs :
              cb[p].pc \in {"kvget", "kvdelete"} =>
                  readBoundToken([NoCookies EXCEPT !.session = cb[p].cookie]) # {})
    /\ [][\A p \in Procs :
              (Received(p) /\ (cb'[p].corrupt \/ cb'[p].error = {NoBinding})) =>
                  /\ cb'[p].pc = "done"
                  /\ cb'[p].error = {NoBinding}
                  /\ kv' = kv
                  /\ validations' = validations]_vars

\* A callback without a cookie was turned away while the token the browser is
\* bound to is live in the store.
C20_Witness ==
    \E p \in Procs, t \in Tokens :
        /\ cb[p].pc = "done"
        /\ cb[p].error = {NoBinding}
        /\ ~cb[p].corrupt
        /\ kv[t] # {}
        /\ jar.session = {Seal(t, ServerKey)}

\* The callback is answered in this step.
Answered(p) == cb[p].pc # "done" /\ cb'[p].pc = "done"

\* C21: completeAuthorization is invoked only from the token exchange of a
\* validated callback whose recovered request names a client; and a callback that
\* is answered with a failure after validateOAuthState returned leaves its token
\* out of the store, so that a later lookup of that token ends with
\* UnknownOrExpiredState.
C21_FailedCallbackSpendsToken ==
    /\ [][\A p \in Procs :
              (Answered(p) /\ Completed(p)') =>
                  /\ cb[p].pc = "exchange"
                  /\ cb[p].validated
                  /\ RequestClientId(cb[p].req) # NoClient]_vars
    /\ [][\A p \in Procs :
              (Answered(p) /\ cb'[p].validated /\ ~Completed(p)') =>
                  /\ cb'[p].resp.status \in {400, 500}
                  /\ cb'[p].resp.location = NoLocation
                  /\ validations'[cb[p].bound] > 0
                  /\ kv'[cb[p].bound] = {}]_vars
    /\ [][\A p \in Procs :
              (LookedUp(p) /\ validations[cb[p].bound] > 0 /\ cb'[p].resp.status # 500) =>
                  /\ cb'[p].pc = "done"
                  /\ cb'[p].error = {UnknownOrExpiredState}]_vars

\* A validated callback was turned away for its missing access token, and the
\* retry that carried the same cookie and state found the token spent.
C21_Witness ==
    \E p, q \in Procs, t \in Tokens :
        /\ cb[p].pc = "done"
        /\ cb[p].validated
        /\ cb[p].resp = Text("Missing access token", 400)
        /\ validations[t] = 1
        /\ \A u \in Tokens \ {t} : validations[u] = 0
        /\ cb[q].pc = "done"
        /\ cb[q].state = t
        /\ cb[q].error = {UnknownOrExpiredState}

\* C22: a tool has an outbound request only with a non-empty access token, which
\* the request carries as its bearer; without one the call ends with the "Not
\* authenticated" result and no request; and a call whose fetch rejects or is
\* answered not-ok ends with an error result that is returned, not raised.
C22_ToolsNeedToken ==
    /\ mcp.request # {} =>
           /\ AccessToken(mcp.props) # ""
           /\ \A r \in mcp.request : r.authorization = "Bearer " \o AccessToken(mcp.props)
    /\ (mcp.pc = "done" /\ AccessToken(mcp.props) = "") =>
           /\ mcp.result = NotAuthenticated
           /\ mcp.request = {}
    /\ (mcp.pc = "done" /\ mcp.outcome \in {"throws", "notok", "badjson"}) =>
           /\ ~mcp.result.raised
           /\ mcp.result.error # {}
           /\ mcp.result.data = {}
    /\ mcp.pc = "done" => ~mcp.result.raised

\* An append with an access token was sent to the Reflect API, was answered
\* not-ok, and the tool returned the error as its result.
C22_Witness ==
    /\ mcp.pc = "done"
    /\ mcp.tool = "append_v2"
    /\ AccessToken(mcp.props) = "tok1"
    /\ mcp.request # {}
    /\ mcp.outcome = "notok"
    /\ mcp.result = Returned({"Error: HTTP error! status: 500"}, {})

====
